---- MODULE Spec2Model ----
(***************************************************************************)
(* A model of alpha_scout.py: the two numeric normalizers, the filter and  *)
(* rank loop of main, the snapshot and ledger files, and the alert loop.   *)
(*                                                                         *)
(* Strings are sequences of one-character strings, so that the regular     *)
(* expressions and the character tests of the code can be computed.        *)
(* Python floats are modelled by exact decimals: a market cap is a record  *)
(* [m, e] standing for m * 10^e, an upside is a fraction [num, den].       *)
(***************************************************************************)
EXTENDS Integers, Sequences, FiniteSets, TLC

VARIABLES
    pc,                 \* position of the run (or of the function under test)
    arg, ret,           \* argument and result of a normalizer under test
    report,             \* main: report (NoReport, or a ScoutReport)
    filtered_catalysts, \* main: filtered_catalysts
    top_picks,          \* main: top_picks
    idx,                \* main: position of `item` in top_picks (line 253)
    snapshot,           \* contents of DATA_FILE (NoFile, or a ScoutReport)
    ledger_exists,      \* os.path.isfile(PERFORMANCE_LOG_FILE)
    ledger_rows,        \* the lines of PERFORMANCE_LOG_FILE
    creds,              \* TELEGRAM_TOKEN and TELEGRAM_CHAT_ID are both set
    out,                \* the lines printed so far
    alerts,             \* the calls of send_telegram_alert made, with their outcome
    err,                \* the exception caught at line 261, "none" if none
    clock               \* wall clock, in seconds

vars == <<pc, arg, ret, report, filtered_catalysts, top_picks, idx, snapshot,
          ledger_exists, ledger_rows, creds, out, alerts, err, clock>>

normVars == <<arg, ret>>
runVars == <<report, filtered_catalysts, top_picks, idx, creds, err>>
fileVars == <<snapshot, ledger_exists, ledger_rows>>

\* ------------------------------------------------------------------ bounds

\* Longest generated input of parse_upside_percentage.
MaxUpsideLen == 4
\* Longest generated input of parse_market_cap_to_millions.
MaxCapLen == 4
\* Most catalysts in a response of the model.
MaxCatalysts == 4
\* Most catalysts in a response given to the filter loop alone.
MaxFilterLen == 2
\* Most calls of log_alert_to_csv, and the latest time of one, when the ledger
\* is modelled alone.
MaxLedgerCalls == 3
MaxClock == 3

\* ------------------------------------------------------------- characters

DigitChars == <<"0", "1", "2", "3", "4", "5", "6", "7", "8", "9">>
LowerChars == <<"a", "b", "c", "d", "e", "f", "g", "h", "i", "j", "k", "l", "m",
                "n", "o", "p", "q", "r", "s", "t", "u", "v", "w", "x", "y", "z">>
UpperChars == <<"A", "B", "C", "D", "E", "F", "G", "H", "I", "J", "K", "L", "M",
                "N", "O", "P", "Q", "R", "S", "T", "U", "V", "W", "X", "Y", "Z">>
Whitespace == {" ", "\t", "\n", "\r"}

\* \d of the regular expressions
IsDigit(c) == \E i \in 1..10 : DigitChars[i] = c
DigitVal(c) == (CHOOSE i \in 1..10 : DigitChars[i] = c) - 1

\* str.upper, one character
ToUpper(c) ==
    IF \E i \in 1..26 : LowerChars[i] = c
    THEN UpperChars[CHOOSE i \in 1..26 : LowerChars[i] = c]
    ELSE c

RECURSIVE Pow10(_)
Pow10(n) == IF n <= 0 THEN 1 ELSE 10 * Pow10(n - 1)

Max(a, b) == IF a >= b THEN a ELSE b
Min(a, b) == IF a <= b THEN a ELSE b

\* All strings over alphabet A of length at most n.
RECURSIVE StringsUpTo(_, _)
StringsUpTo(A, n) ==
    IF n = 0 THEN {<<>>}
    ELSE LET shorter == StringsUpTo(A, n - 1)
         IN  shorter \cup {Append(s, c) : s \in {t \in shorter : Len(t) = n - 1}, c \in A}

\* ------------------------------------------------------------ float(text)

\* float() of a text made of digits and dots: the digits read as an integer m
\* and the number f of digits after the dot; the value is m / 10^f.
RECURSIVE DigitsValue(_)
DigitsValue(s) ==
    IF s = <<>> THEN 0
    ELSE LET n == Len(s)
         IN  IF IsDigit(s[n])
             THEN 10 * DigitsValue(SubSeq(s, 1, n - 1)) + DigitVal(s[n])
             ELSE DigitsValue(SubSeq(s, 1, n - 1))

DotCount(s) == Cardinality({i \in 1..Len(s) : s[i] = "."})
DigitCount(s) == Cardinality({i \in 1..Len(s) : IsDigit(s[i])})

\* float() raises ValueError on "." and on "1.2.3"
FloatParses(s) == DotCount(s) <= 1 /\ DigitCount(s) >= 1

FracDigits(s) ==
    IF DotCount(s) = 0 THEN 0
    ELSE Len(s) - (CHOOSE i \in 1..Len(s) : s[i] = ".")

\* ------------------------------------------- parse_upside_percentage (55-59)

\* Index after the longest run of digits that starts at i (i when there is none).
RECURSIVE DigitRunEnd(_, _)
DigitRunEnd(s, i) ==
    IF i <= Len(s) /\ IsDigit(s[i]) THEN DigitRunEnd(s, i + 1) ELSE i

\* (\d+(?:\.\d+)?)% tried at position i: the index of the '%' that ends the
\* match, 0 when there is no match at i.  \d+ is greedy, and giving digits back
\* never helps: what follows a shorter run is a digit, never '.' or '%'.
MatchUpsideAt(s, i) ==
    LET a == DigitRunEnd(s, i)
        b == IF a <= Len(s) /\ s[a] = "." THEN DigitRunEnd(s, a + 1) ELSE a
        hasFrac == b > a + 1
    IN  IF a = i THEN 0
        ELSE IF hasFrac /\ b <= Len(s) /\ s[b] = "%" THEN b
        ELSE IF a <= Len(s) /\ s[a] = "%" THEN a
        ELSE 0

\* re.findall: the captured groups of the leftmost non-overlapping matches.
RECURSIVE FindAllUpside(_, _)
FindAllUpside(s, i) ==
    IF i > Len(s) THEN <<>>
    ELSE LET p == MatchUpsideAt(s, i)
         IN  IF p = 0 THEN FindAllUpside(s, i + 1)
             ELSE <<SubSeq(s, i, p - 1)>> \o FindAllUpside(s, p + 1)

RECURSIVE MaxFrac(_)
MaxFrac(matches) ==
    IF matches = <<>> THEN 0
    ELSE Max(FracDigits(Head(matches)), MaxFrac(Tail(matches)))

\* sum(values), in units of 10^-f
RECURSIVE SumScaled(_, _)
SumScaled(matches, f) ==
    IF matches = <<>> THEN 0
    ELSE DigitsValue(Head(matches)) * Pow10(f - FracDigits(Head(matches)))
         + SumScaled(Tail(matches), f)

parse_upside_percentage(upside_str) ==
    LET matches == FindAllUpside(upside_str, 1)
        f == MaxFrac(matches)
    IN  IF matches = <<>> THEN [num |-> 0, den |-> 1]
        ELSE [num |-> SumScaled(matches, f), den |-> Pow10(f) * Len(matches)]

\* ------------------------------------- parse_market_cap_to_millions (46-53)

RECURSIVE RemoveChars(_, _)
RemoveChars(s, C) ==
    IF s = <<>> THEN <<>>
    ELSE IF Head(s) \in C THEN RemoveChars(Tail(s), C)
    ELSE <<Head(s)>> \o RemoveChars(Tail(s), C)

RECURSIVE LStrip(_)
LStrip(s) == IF s # <<>> /\ Head(s) \in Whitespace THEN LStrip(Tail(s)) ELSE s

RECURSIVE RStrip(_)
RStrip(s) ==
    IF s # <<>> /\ s[Len(s)] \in Whitespace THEN RStrip(SubSeq(s, 1, Len(s) - 1)) ELSE s

\* cap_str.upper().replace('$', '').replace(',', '').strip()
CleanCap(cap_str) ==
    RStrip(LStrip(RemoveChars([i \in 1..Len(cap_str) |-> ToUpper(cap_str[i])], {"$", ","})))

Contains(s, c) == \E i \in 1..Len(s) : s[i] = c

\* [\d\.]
IsNumChar(c) == IsDigit(c) \/ c = "."

RECURSIVE NumRunEnd(_, _)
NumRunEnd(s, i) ==
    IF i <= Len(s) /\ IsNumChar(s[i]) THEN NumRunEnd(s, i + 1) ELSE i

\* re.search(r"[\d\.]+", clean).group(): the first, longest run of digits and
\* dots; <<>> stands for no match (.group() then raises AttributeError).
SearchNumber(s) ==
    IF \E i \in 1..Len(s) : IsNumChar(s[i])
    THEN LET i == CHOOSE k \in 1..Len(s) :
                     IsNumChar(s[k]) /\ \A j \in 1..(k - 1) : ~IsNumChar(s[j])
         IN  SubSeq(s, i, NumRunEnd(s, i) - 1)
    ELSE <<>>

Zero == [m |-> 0, e |-> 0]

\* m * 10^e without trailing zeros in m, so that equal values are equal records
RECURSIVE DecNorm(_)
DecNorm(d) ==
    IF d.m = 0 THEN Zero
    ELSE IF d.m % 10 = 0 THEN DecNorm([m |-> d.m \div 10, e |-> d.e + 1])
    ELSE d

\* float(re.search(...).group()) * 10^scale, with the bare except of line 53
ScaledNumber(clean, scale) ==
    LET tok == SearchNumber(clean)
    IN  IF tok = <<>> \/ ~FloatParses(tok) THEN Zero
        ELSE DecNorm([m |-> DigitsValue(tok), e |-> scale - FracDigits(tok)])

\* the branches of lines 49-51 taken in the order T, B, M
parse_market_cap_TBM(cap_str) ==
    LET clean == CleanCap(cap_str)
    IN  IF Contains(clean, "T") THEN ScaledNumber(clean, 6)
        ELSE IF Contains(clean, "B") THEN ScaledNumber(clean, 3)
        ELSE IF Contains(clean, "M") THEN ScaledNumber(clean, 0)
        ELSE Zero

parse_market_cap_to_millions(cap_str) ==
    LET clean == CleanCap(cap_str)
    IN  IF Contains(clean, "B") THEN ScaledNumber(clean, 3)
        ELSE IF Contains(clean, "M") THEN ScaledNumber(clean, 0)
        ELSE IF Contains(clean, "T") THEN ScaledNumber(clean, 6)
        ELSE Zero

\* ------------------------------------------------- normalizers under test

UpsideAlphabet == {"1", "5", ".", "%", "-"}
UpsideExamples ==
    { <<"1", "0", "-", "2", "0", "%">>,
      <<"8", "%">>,
      <<"f", "l", "a", "t">>,
      <<"u", "p", " ", "5", "%", " ", "t", "o", " ", "1", "0", "%">>,
      <<"1", "0", "%", "-", "2", "0", "%">>,
      <<"1", "2", ".", "5", "%">> }
UpsideInputs == StringsUpTo(UpsideAlphabet, MaxUpsideLen) \cup UpsideExamples

CapAlphabet == {"2", ".", "$", ",", "b", "B", "M", "T", " "}
CapExamples ==
    { <<"$", "4", "5", "0", "M">>,
      <<"$", "2", ".", "1", "B">>,
      <<"$", "1", ".", "2", "T">>,
      <<"g", "a", "r", "b", "a", "g", "e">>,
      <<"2", "b">>,
      <<"2", "B">>,
      <<"$", "1", ",", "2", "0", "0", "m">> }
CapInputs == StringsUpTo(CapAlphabet, MaxCapLen) \cup CapExamples

\* report is None, or a ScoutReport (42-43)
NoReport == [none |-> TRUE]
ScoutReport(cats) == [catalysts |-> cats]
\* DATA_FILE is absent, or holds the ScoutReport last saved
NoFile == [nofile |-> TRUE]

IdleRun ==
    /\ report = NoReport
    /\ filtered_catalysts = <<>>
    /\ top_picks = <<>>
    /\ idx = 0
    /\ snapshot = NoFile
    /\ ledger_exists = FALSE
    /\ ledger_rows = <<>>
    /\ creds = FALSE
    /\ out = <<>>
    /\ alerts = <<>>
    /\ err = "none"
    /\ clock = 0

InitUpside ==
    /\ pc = "call"
    /\ arg \in UpsideInputs
    /\ ret = <<>>
    /\ IdleRun

CallUpside ==
    /\ pc = "call"
    /\ ret' = parse_upside_percentage(arg)
    /\ pc' = "return"
    /\ UNCHANGED <<arg, runVars, fileVars, out, alerts, clock>>

SpecUpside == InitUpside /\ [][CallUpside]_vars

InitCap ==
    /\ pc = "call"
    /\ arg \in CapInputs
    /\ ret = <<>>
    /\ IdleRun

CallCap ==
    /\ pc = "call"
    /\ ret' = parse_market_cap_to_millions(arg)
    /\ pc' = "return"
    /\ UNCHANGED <<arg, runVars, fileVars, out, alerts, clock>>

SpecCap == InitCap /\ [][CallCap]_vars

\* ------------------------------------------------------------ C1 and C2

\* a fraction equals the decimal m / 10^f
RatIs(r, m, f) == r.num * Pow10(f) = m * r.den

\* C1 (as claimed): parse_upside_percentage returns 0.0 when no decimal number
\* is immediately followed by '%', and otherwise the mean of the percentages
\* the string states, a range collapsing to its midpoint: "10-20%" gives 15.0,
\* "8%" gives 8.0, "flat" gives 0.0 and "up 5% to 10%" gives 7.5.
C1_UpsideMidpoint ==
    pc = "return" =>
        /\ (\A i \in 1..Len(arg) : MatchUpsideAt(arg, i) = 0) => RatIs(ret, 0, 0)
        /\ arg = <<"1", "0", "-", "2", "0", "%">> => RatIs(ret, 15, 0)
        /\ arg = <<"8", "%">> => RatIs(ret, 8, 0)
        /\ arg = <<"f", "l", "a", "t">> => RatIs(ret, 0, 0)
        /\ arg = <<"u", "p", " ", "5", "%", " ", "t", "o", " ", "1", "0", "%">>
               => RatIs(ret, 75, 1)

\* The text the claim calls the leading number: the first longest run of
\* digits and dots of the cleaned string, described by its two ends.
IsFirstNumRun(s, i, j) ==
    /\ 1 <= i /\ i <= j /\ j <= Len(s)
    /\ \A k \in i..j : IsNumChar(s[k])
    /\ \A k \in 1..(i - 1) : ~IsNumChar(s[k])
    /\ (j < Len(s) => ~IsNumChar(s[j + 1]))

\* d is the decimal that text reads as, times 10^scale; 0.0 when there is no
\* such text or float() rejects it
IsScaledLeadingNumber(d, s, scale) ==
    IF \E i, j \in 1..Len(s) : IsFirstNumRun(s, i, j) /\ FloatParses(SubSeq(s, i, j))
    THEN \E i, j \in 1..Len(s) :
            /\ IsFirstNumRun(s, i, j)
            /\ LET tok == SubSeq(s, i, j)
                   k == (scale - FracDigits(tok)) - d.e
               IN  IF k >= 0 THEN d.m = DigitsValue(tok) * Pow10(k)
                   ELSE d.m * Pow10(-k) = DigitsValue(tok)
    ELSE d = Zero

\* C2 (as claimed): the multiplier is chosen by looking for T, then B, then M.
C2_OrderTBM ==
    pc = "return" =>
        LET clean == CleanCap(arg)
        IN  IF Contains(clean, "T") THEN IsScaledLeadingNumber(ret, clean, 6)
            ELSE IF Contains(clean, "B") THEN IsScaledLeadingNumber(ret, clean, 3)
            ELSE IF Contains(clean, "M") THEN IsScaledLeadingNumber(ret, clean, 0)
            ELSE ret = Zero

\* C2 (amended): after removing '$' and ',' and upper-casing, the multiplier is
\* chosen by looking for B, then M, then T: times 1,000 when the string holds a
\* 'B', else the number itself when it holds an 'M', else times 1,000,000 when
\* it holds a 'T', else 0.0; the number is the first run of digits and dots,
\* and the result is 0.0 when there is none or it is not a decimal number.
C2_OrderBMT ==
    pc = "return" =>
        LET clean == CleanCap(arg)
        IN  /\ IF Contains(clean, "B") THEN IsScaledLeadingNumber(ret, clean, 3)
               ELSE IF Contains(clean, "M") THEN IsScaledLeadingNumber(ret, clean, 0)
               ELSE IF Contains(clean, "T") THEN IsScaledLeadingNumber(ret, clean, 6)
               ELSE ret = Zero
            /\ arg = <<"$", "4", "5", "0", "M">> => ret = [m |-> 45, e |-> 1]
            /\ arg = <<"$", "2", ".", "1", "B">> => ret = [m |-> 21, e |-> 2]
            /\ arg = <<"$", "1", ".", "2", "T">> => ret = [m |-> 12, e |-> 5]
            /\ arg = <<"g", "a", "r", "b", "a", "g", "e">> => ret = Zero
            /\ arg \in {<<"2", "b">>, <<"2", "B">>} => ret = [m |-> 2, e |-> 3]

\* a string with both a 'T' and a 'B' has been scaled, by the 'B'
C2_Witness ==
    /\ pc = "return"
    /\ Contains(CleanCap(arg), "T")
    /\ Contains(CleanCap(arg), "B")
    /\ ret = [m |-> 2, e |-> 3]

\* ------------------------------------------------------ catalysts (23-43)

\* A Catalyst, with the fields the run reads; thesis, absorption_status and
\* current_price stand for the descriptive payload that is passed through.
Catalyst(t, sent, upside, cap, score) ==
    [ticker |-> t, sentiment |-> sent, expected_upside |-> upside, market_cap |-> cap,
     conviction_score |-> score, current_price |-> "price", thesis |-> "thesis",
     absorption_status |-> "absorption"]

\* the response's catalysts: the profiles given, the ticker of each naming its
\* place in the response
Numbered(profiles) ==
    [i \in 1..Len(profiles) |->
        Catalyst(i, profiles[i][1], profiles[i][2], profiles[i][3], profiles[i][4])]

\* ---------------------------------------------------- filter loop (214-235)

\* m * 10^e >= k and m * 10^e <= k, for a whole number k
RECURSIVE DecGe(_, _)
DecGe(d, k) ==
    IF d.e < 0 THEN (d.m \div Pow10(-d.e)) >= k
    ELSE IF d.m >= k THEN TRUE
    ELSE IF d.e = 0 \/ d.m = 0 THEN FALSE
    ELSE DecGe([m |-> d.m * 10, e |-> d.e - 1], k)

RECURSIVE DecLe(_, _)
DecLe(d, k) ==
    IF d.e < 0 THEN d.m <= k * Pow10(-d.e)
    ELSE IF d.m > k THEN FALSE
    ELSE IF d.e = 0 \/ d.m = 0 THEN TRUE
    ELSE DecLe([m |-> d.m * 10, e |-> d.e - 1], k)

\* line 220
IsLiquidEnough(mcap_millions) == DecGe(mcap_millions, 300)
\* line 221
IsSweetSpot(mcap_millions) == DecGe(mcap_millions, 500) /\ DecLe(mcap_millions, 10000)

\* the bonus of line 226 given whatever the market cap
FinalScore2Always(c) == 2 * c.conviction_score + 1

\* lines 224-226, in halves: twice final_score
FinalScore2(c) ==
    2 * c.conviction_score
    + (IF IsSweetSpot(parse_market_cap_to_millions(c.market_cap)) THEN 1 ELSE 0)

\* lines 229-232
Accepts(c) ==
    LET upside_val == parse_upside_percentage(c.expected_upside)
        mcap_millions == parse_market_cap_to_millions(c.market_cap)
    IN  /\ c.sentiment = "Bullish"
        /\ upside_val.num >= 8 * upside_val.den
        /\ IsLiquidEnough(mcap_millions)
        /\ FinalScore2(c) >= 15

\* line 234: min(10, int(final_score))
StoredScore(c) == Min(10, FinalScore2(c) \div 2)

\* the catalyst after one pass of the loop body: an accepted one is mutated
AfterFilter(c) ==
    IF Accepts(c) THEN [c EXCEPT !.conviction_score = StoredScore(c)] ELSE c

\* filtered_catalysts after the loop over cats
RECURSIVE FilterLoop(_)
FilterLoop(cats) ==
    IF cats = <<>> THEN <<>>
    ELSE IF Accepts(Head(cats)) THEN <<AfterFilter(Head(cats))>> \o FilterLoop(Tail(cats))
    ELSE FilterLoop(Tail(cats))

\* ------------------------------------------------------ ranking (243-246)

Reverse(s) == [i \in 1..Len(s) |-> s[Len(s) + 1 - i]]

\* x put into a list sorted by ascending score, after the entries that do not
\* score more than x
RECURSIVE InsertAscending(_, _)
InsertAscending(sorted, x) ==
    IF sorted = <<>> THEN <<x>>
    ELSE IF Head(sorted).conviction_score <= x.conviction_score
         THEN <<Head(sorted)>> \o InsertAscending(Tail(sorted), x)
    ELSE <<x>> \o sorted

\* the stable ascending sort list.sort runs
RECURSIVE SortAscending(_)
SortAscending(s) ==
    IF s = <<>> THEN <<>>
    ELSE InsertAscending(SortAscending(SubSeq(s, 1, Len(s) - 1)), s[Len(s)])

\* a descending sort that is not stable: the ascending sort, reversed
SortByConvictionUnstable(s) == Reverse(SortAscending(s))

\* list.sort(key=..., reverse=True): the list is reversed, sorted ascending
\* and stably, and reversed again
SortByConviction(s) == Reverse(SortAscending(Reverse(s)))

\* line 246
TopN == 3
\* every accepted catalyst alerted
TopPicksAll(s) == s
TopPicks(s) == SubSeq(s, 1, Min(TopN, Len(s)))

\* ------------------------------------------------ log_alert_to_csv (62-91)

Headers == <<"Timestamp_NY", "Ticker", "Entry_Price", "Conviction", "Market_Cap",
             "Expected_Upside", "Thesis", "Absorption_Status", "Status">>

\* row_data, lines 71-81
RowData(ny_time, catalyst) ==
    <<ny_time, catalyst.ticker, catalyst.current_price, catalyst.conviction_score,
      catalyst.market_cap, catalyst.expected_upside, catalyst.thesis,
      catalyst.absorption_status, "OPEN">>

\* the header written by every call
LedgerAfterAlwaysHeader(file_exists, rows, ny_time, catalyst) ==
    Append(Append(rows, Headers), RowData(ny_time, catalyst))

\* lines 84-89: the lines of the file after the call
LedgerAfter(file_exists, rows, ny_time, catalyst) ==
    Append(IF file_exists THEN rows ELSE Append(rows, Headers), RowData(ny_time, catalyst))

\* --------------------------------------- format_telegram_message (154-179)

\* the fields the template substitutes
FormatMessage(catalyst) ==
    [ticker |-> catalyst.ticker, current_price |-> catalyst.current_price,
     market_cap |-> catalyst.market_cap, conviction_score |-> catalyst.conviction_score,
     expected_upside |-> catalyst.expected_upside, thesis |-> catalyst.thesis,
     absorption_status |-> catalyst.absorption_status]

\* ------------------------------------------------------------ main (202-262)

U12 == <<"1", "2", "%">>
U3 == <<"3", "%">>
U20 == <<"2", "0", "%">>
Cap600M == <<"$", "6", "0", "0", "M">>
Cap700M == <<"$", "7", "0", "0", "M">>
Cap1B == <<"$", "1", "B">>

\* What the model may answer with: the three candidates of the worked example
\* (A, B, C), and A with a score of 9.
Profiles ==
    { <<"Bullish", U12, Cap600M, 8>>,
      <<"Bullish", U12, Cap600M, 9>>,
      <<"Bullish", U3, Cap1B, 9>>,
      <<"Bearish", U20, Cap700M, 9>> }

Responses == {Numbered(p) : p \in StringsUpTo(Profiles, MaxCatalysts) \ {<<>>}}

\* a ledger left by an earlier run
OldLedger == <<Headers, RowData(0, Catalyst(0, "Bullish", U12, Cap600M, 8))>>

Init ==
    /\ pc = "query"
    /\ arg = <<>>
    /\ ret = <<>>
    /\ report = NoReport
    /\ filtered_catalysts = <<>>
    /\ top_picks = <<>>
    /\ idx = 0
    /\ snapshot = NoFile
    /\ \/ ledger_exists = FALSE /\ ledger_rows = <<>>
       \/ ledger_exists = TRUE /\ ledger_rows = OldLedger
    /\ creds \in BOOLEAN
    /\ out = << <<"initializing">> >>
    /\ alerts = <<>>
    /\ err = "none"
    /\ clock = 1

\* line 205 raises: the handler of line 261
QueryRaises ==
    /\ pc = "query"
    /\ err' = "QueryError"
    /\ out' = Append(out, <<"critical error">>)
    /\ pc' = "failed"
    /\ UNCHANGED <<normVars, report, filtered_catalysts, top_picks, idx, creds,
                   fileVars, alerts, clock>>

\* lines 205-209: response.parsed is None, or has no catalysts
QueryNoCatalysts ==
    /\ pc = "query"
    /\ report' \in {NoReport, ScoutReport(<<>>)}
    /\ out' = Append(out, <<"no catalysts found">>)
    /\ pc' = "done"
    /\ UNCHANGED <<normVars, filtered_catalysts, top_picks, idx, creds, err,
                   fileVars, alerts, clock>>

\* lines 205-212
QueryReturns ==
    /\ pc = "query"
    /\ \E r \in Responses : report' = ScoutReport(r)
    /\ out' = Append(out, <<"analyzing", Len(report'.catalysts)>>)
    /\ pc' = "filter"
    /\ UNCHANGED <<normVars, filtered_catalysts, top_picks, idx, creds, err,
                   fileVars, alerts, clock>>

\* lines 214-238
Filter ==
    /\ pc = "filter"
    /\ filtered_catalysts' = FilterLoop(report.catalysts)
    /\ report' = ScoutReport([i \in 1..Len(report.catalysts) |->
                                  AfterFilter(report.catalysts[i])])
    /\ IF filtered_catalysts' = <<>>
       THEN /\ out' = Append(out, <<"none met the criteria">>)
            /\ pc' = "save_report"
       ELSE /\ out' = out
            /\ pc' = "rank"
    /\ UNCHANGED <<normVars, top_picks, idx, creds, err, fileVars, alerts, clock>>

\* lines 239-240: save_to_json(report)
SaveReport ==
    /\ pc = "save_report"
    /\ snapshot' = report
    /\ out' = Append(out, <<"data saved">>)
    /\ pc' = "done"
    /\ UNCHANGED <<normVars, runVars, ledger_exists, ledger_rows, alerts, clock>>

\* lines 243-246
Rank ==
    /\ pc = "rank"
    /\ filtered_catalysts' = SortByConviction(filtered_catalysts)
    /\ top_picks' = TopPicks(filtered_catalysts')
    /\ pc' = "save_final"
    /\ UNCHANGED <<normVars, report, idx, creds, err, fileVars, out, alerts, clock>>

\* the snapshot left for after the alert loop
SaveFinalDeferred ==
    /\ pc = "save_final"
    /\ idx' = 1
    /\ pc' = "log"
    /\ UNCHANGED <<normVars, report, filtered_catalysts, top_picks, creds, err,
                   fileVars, out, alerts, clock>>

\* lines 249-250: save_to_json(final_report), and the loop of line 253 entered
SaveFinal ==
    /\ pc = "save_final"
    /\ snapshot' = ScoutReport(filtered_catalysts)
    /\ out' = Append(out, <<"data saved">>)
    /\ idx' = 1
    /\ pc' = "log"
    /\ UNCHANGED <<normVars, report, filtered_catalysts, top_picks, creds, err,
                   ledger_exists, ledger_rows, alerts, clock>>

\* line 254: log_alert_to_csv(item) returns
LogAlert ==
    /\ pc = "log"
    /\ ledger_rows' = LedgerAfter(ledger_exists, ledger_rows, clock, top_picks[idx])
    /\ ledger_exists' = TRUE
    /\ out' = Append(out, <<"logged alert", top_picks[idx].ticker>>)
    /\ pc' = "send"
    /\ UNCHANGED <<normVars, runVars, snapshot, alerts, clock>>

\* line 254: makedirs or open raises (no directory, no permission), the file
\* is left as it was: the handler of line 261
LogAlertRaises ==
    /\ pc = "log"
    /\ err' = "LedgerError"
    /\ out' = Append(out, <<"critical error">>)
    /\ pc' = "failed"
    /\ UNCHANGED <<normVars, report, filtered_catalysts, top_picks, idx, creds,
                   fileVars, alerts, clock>>

\* send_telegram_alert without the try of line 194: a failed post raises
SendAlertPropagates ==
    /\ pc = "send"
    /\ \E outcome \in (IF creds THEN {"sent", "failed"} ELSE {"skipped"}) :
          /\ alerts' = Append(alerts, [msg |-> FormatMessage(top_picks[idx]),
                                       outcome |-> outcome])
          /\ IF outcome = "failed"
             THEN /\ err' = "DeliveryError"
                  /\ out' = Append(out, <<"critical error">>)
                  /\ pc' = "failed"
             ELSE /\ err' = err
                  /\ out' = Append(out, <<"telegram", outcome>>)
                  /\ pc' = "sleep"
    /\ UNCHANGED <<normVars, report, filtered_catalysts, top_picks, idx, creds,
                   fileVars, clock>>

\* lines 255-256, send_telegram_alert 181-199: no credentials, the message is
\* skipped; else the post succeeds, or fails and the error is printed
SendAlert ==
    /\ pc = "send"
    /\ \E outcome \in (IF creds THEN {"sent", "failed"} ELSE {"skipped"}) :
          /\ alerts' = Append(alerts, [msg |-> FormatMessage(top_picks[idx]),
                                       outcome |-> outcome])
          /\ out' = Append(out, <<"telegram", outcome>>)
    /\ pc' = "sleep"
    /\ UNCHANGED <<normVars, runVars, fileVars, clock>>

\* line 257, and the loop's next item or its end (line 259)
Sleep ==
    /\ pc = "sleep"
    /\ clock' = clock + 1
    /\ IF idx < Len(top_picks)
       THEN /\ idx' = idx + 1
            /\ pc' = "log"
            /\ out' = out
       ELSE /\ idx' = idx
            /\ pc' = "done"
            /\ out' = Append(out, <<"processed", Len(filtered_catalysts), Len(top_picks)>>)
    /\ UNCHANGED <<normVars, report, filtered_catalysts, top_picks, creds, err,
                   fileVars, alerts>>

Next ==
    \/ QueryRaises
    \/ QueryNoCatalysts
    \/ QueryReturns
    \/ Filter
    \/ SaveReport
    \/ Rank
    \/ SaveFinal
    \/ LogAlert
    \/ LogAlertRaises
    \/ SendAlert
    \/ Sleep

Spec == Init /\ [][Next]_vars

\* ------------------------------------------------- the filter loop alone

Cap299M == <<"$", "2", "9", "9", "M">>
Cap300M == <<"$", "3", "0", "0", "M">>
Cap500M == <<"$", "5", "0", "0", "M">>
Cap10B == <<"$", "1", "0", "B">>
Cap10p1B == <<"$", "1", "0", ".", "1", "B">>
U8 == <<"8", "%">>
U7p9 == <<"7", ".", "9", "%">>
U5to10 == <<"5", "-", "1", "0", "%">>

\* for a Bullish candidate every combination of an upside on either side of 8
\* or given as a range, a market cap on either side of 300, 500 and 10000, and
\* a score on either side of 7.5; and a Bearish and a Mixed candidate that
\* meet the three other conditions
FilterProfiles ==
    {<<"Bullish", u, cap, score>> :
        u \in {U8, U7p9, U5to10},
        cap \in {Cap299M, Cap300M, Cap500M, Cap10B, Cap10p1B}, score \in {7, 8}}
    \cup {<<"Bearish", U8, Cap500M, 8>>, <<"Mixed", U8, Cap500M, 8>>}

FilterResponses == {Numbered(p) : p \in StringsUpTo(FilterProfiles, MaxFilterLen) \ {<<>>}}

\* main at line 214, the model having answered
InitFilter ==
    /\ pc = "filter"
    /\ arg = <<>>
    /\ ret = <<>>
    /\ \E r \in FilterResponses :
          /\ report = ScoutReport(r)
          /\ out = << <<"initializing">>, <<"analyzing", Len(r)>> >>
    /\ filtered_catalysts = <<>>
    /\ top_picks = <<>>
    /\ idx = 0
    /\ snapshot = NoFile
    /\ ledger_exists = FALSE
    /\ ledger_rows = <<>>
    /\ creds = FALSE
    /\ alerts = <<>>
    /\ err = "none"
    /\ clock = 1

SpecFilter == InitFilter /\ [][Filter]_vars

\* --------------------------------------------------------- the ledger alone

\* catalysts as the alert loop hands them to log_alert_to_csv
LedgerCatalysts ==
    { Catalyst(1, "Bullish", U12, Cap600M, 8),
      Catalyst(2, "Bullish", U20, Cap1B, 9),
      Catalyst(3, "Bullish", U12, Cap700M, 7) }

InitLedger ==
    /\ pc = "ledger"
    /\ arg = <<>>
    /\ ret = <<>>
    /\ IdleRun

\* one call of log_alert_to_csv, of this run or of a later one
LedgerCall ==
    /\ pc = "ledger"
    /\ Len(out) < MaxLedgerCalls
    /\ \E c \in LedgerCatalysts :
          /\ ledger_rows' = LedgerAfter(ledger_exists, ledger_rows, clock, c)
          /\ out' = Append(out, <<"logged alert", c.ticker>>)
    /\ ledger_exists' = TRUE
    /\ UNCHANGED <<pc, normVars, runVars, snapshot, alerts, clock>>

\* time passes between two calls (line 257), or between two runs
Tick ==
    /\ pc = "ledger"
    /\ clock < MaxClock
    /\ clock' = clock + 1
    /\ UNCHANGED <<pc, normVars, runVars, fileVars, out, alerts>>

SpecLedger == InitLedger /\ [][LedgerCall \/ Tick]_vars

\* ------------------------------------------------------------ C3 to C10

IsPrefix(a, b) == Len(a) <= Len(b) /\ \A i \in 1..Len(a) : a[i] = b[i]
Tickers(s) == [i \in 1..Len(s) |-> s[i].ticker]

\* the "Logged alert for ..." lines printed, and their tickers
IsLoggedLine(e) == e[1] = "logged alert"
LoggedTickers ==
    LET lines == SelectSeq(out, IsLoggedLine)
    IN  [i \in 1..Len(lines) |-> lines[i][2]]
AlertTickers == [i \in 1..Len(alerts) |-> alerts[i].msg.ticker]

\* the run is past line 246, and past line 250
Ranked == pc \in {"save_final", "log", "send", "sleep"}
          \/ (pc \in {"done", "failed"} /\ top_picks # <<>>)
Saved == pc \in {"log", "send", "sleep"}
         \/ (pc \in {"done", "failed"} /\ top_picks # <<>>)

\* what the normalizers make of the strings of FilterProfiles, worked out by
\* hand: millions, and tenths of a percent.  Of the range "5-10%" the
\* normalizer reads the figure next to the '%' alone (see C1).
StatedMillions(cap) ==
    CASE cap = Cap299M -> 299
      [] cap = Cap300M -> 300
      [] cap = Cap500M -> 500
      [] cap = Cap10B -> 10000
      [] cap = Cap10p1B -> 10100
StatedUpsideTenths(u) ==
    CASE u = U8 -> 80
      [] u = U7p9 -> 79
      [] u = U5to10 -> 100

\* the four conditions of the claim; the score in halves
MeetsAllFour(c) ==
    LET mcap == StatedMillions(c.market_cap)
        bonus == IF 500 <= mcap /\ mcap <= 10000 THEN 1 ELSE 0
    IN  /\ c.sentiment = "Bullish"
        /\ StatedUpsideTenths(c.expected_upside) >= 80
        /\ mcap >= 300
        /\ 2 * c.conviction_score + bonus >= 15

\* C3: the filter loop accepts a candidate if and only if its sentiment is
\* "Bullish", its upside is >= 8.0, its market cap is >= 300 and its score,
\* plus 0.5 exactly when 500 <= market cap <= 10000, is >= 7.5; each accepted
\* candidate is kept once.
C3_AcceptIffAllFour ==
    [][pc = "filter" =>
        /\ \A i \in 1..Len(report.catalysts) :
              (\E k \in 1..Len(filtered_catalysts') : filtered_catalysts'[k].ticker = i)
                  <=> MeetsAllFour(report.catalysts[i])
        /\ Len(filtered_catalysts') =
              Cardinality({i \in 1..Len(report.catalysts) : MeetsAllFour(report.catalysts[i])})
      ]_vars

\* a candidate scored 7 accepted for its bonus, next to one scored 7 and
\* rejected for want of it
C3_Witness ==
    /\ pc # "filter"
    /\ Len(report.catalysts) = 2
    /\ report.catalysts[1].conviction_score = 7
    /\ report.catalysts[2].conviction_score = 7
    /\ report.catalysts[2].market_cap = Cap300M
    /\ report.catalysts[2].sentiment = "Bullish"
    /\ report.catalysts[2].expected_upside = U8
    /\ Tickers(filtered_catalysts) = <<1>>

\* C4: with a non-empty accepted set, the alerted candidates are the first
\* min(3, accepted_count) of the ranked list (no other gets a ledger row or a
\* delivery attempt, and at the end each of them has both), and the snapshot
\* holds the whole ranked list.
C4_TopThreeAlertedAllSaved ==
    Ranked =>
        LET n == Len(filtered_catalysts)
            k == IF n < 3 THEN n ELSE 3
        IN  /\ n > 0
            /\ Len(top_picks) = k
            /\ \A i \in 1..k : top_picks[i] = filtered_catalysts[i]
            /\ IsPrefix(LoggedTickers, Tickers(top_picks))
            /\ IsPrefix(AlertTickers, Tickers(top_picks))
            /\ Saved =>
                  /\ snapshot = ScoutReport(filtered_catalysts)
                  /\ Len(snapshot.catalysts) =
                        Cardinality({i \in 1..Len(report.catalysts) :
                                        Accepts(report.catalysts[i])})
            /\ pc = "done" =>
                  /\ LoggedTickers = Tickers(top_picks)
                  /\ AlertTickers = Tickers(top_picks)
                  /\ \A i \in 1..k :
                        ledger_rows[Len(ledger_rows) - k + i][2] = top_picks[i].ticker

\* four accepted, three alerted, four saved
C4_Witness ==
    /\ pc = "done"
    /\ Len(filtered_catalysts) = 4
    /\ Len(alerts) = 3
    /\ Len(LoggedTickers) = 3
    /\ Len(snapshot.catalysts) = 4

\* C5: the accepted candidates are ranked by stored score, highest first, and
\* candidates of equal score keep the order of the model's response (their
\* tickers name their places in it); the snapshot and the alerts follow the
\* ranked order.
C5_StableDescending ==
    Ranked =>
        LET f == filtered_catalysts
        IN  /\ \A i, j \in 1..Len(f) :
                  i < j => /\ f[i].conviction_score >= f[j].conviction_score
                           /\ (f[i].conviction_score = f[j].conviction_score
                                   => f[i].ticker < f[j].ticker)
            /\ {f[i] : i \in 1..Len(f)} =
                  {c \in {report.catalysts[i] : i \in 1..Len(report.catalysts)} : Accepts(c)}
            /\ Saved => snapshot.catalysts = f
            /\ \A i \in 1..Len(alerts) : alerts[i].msg.ticker = f[i].ticker

\* the sort has moved a later, higher-scored candidate ahead, and has left two
\* of equal score as they came
C5_Witness ==
    /\ pc = "done"
    /\ \E i \in 1..(Len(filtered_catalysts) - 1) :
          /\ filtered_catalysts[i].conviction_score
                 = filtered_catalysts[i + 1].conviction_score
          /\ filtered_catalysts[i].ticker < filtered_catalysts[i + 1].ticker
    /\ \E i \in 1..(Len(filtered_catalysts) - 1) :
          filtered_catalysts[i].ticker > filtered_catalysts[i + 1].ticker

\* C6 (as claimed): whenever the model has answered and nothing is accepted,
\* an empty answer included, the run ends normally with no alert and no ledger
\* row, and the report it was given is in the snapshot.
C6_EmptyAcceptedIsAudited ==
    (pc \in {"done", "failed"} /\ report # NoReport /\ filtered_catalysts = <<>>) =>
        /\ pc = "done"
        /\ err = "none"
        /\ alerts = <<>>
        /\ LoggedTickers = <<>>
        /\ snapshot = report

\* C7 (as claimed): a query that fails, by raising or by giving no structured
\* response, ends the run as "no catalysts found", never as FAILED.
C7_QueryFailureIsNoCatalysts ==
    (err = "QueryError" \/ (pc # "query" /\ report = NoReport)) =>
        /\ pc = "done"
        /\ out[Len(out)] = <<"no catalysts found">>

\* C8: a delivery that fails or is skipped never aborts the batch: the
\* attempts made are, in ranked order and once each, those of the candidates
\* the loop has reached, whatever the earlier outcomes; the run fails only on
\* a query or ledger error; and a run that ends DONE has attempted every
\* alerted candidate.
C8_DeliveryNeverAborts ==
    /\ \A i \in 1..Len(alerts) : alerts[i].msg = FormatMessage(top_picks[i])
    /\ Len(alerts) <= Len(top_picks)
    /\ pc \in {"log", "send"} => Len(alerts) = idx - 1
    /\ pc = "sleep" => Len(alerts) = idx
    /\ pc = "failed" => err \in {"QueryError", "LedgerError"}
    /\ (pc = "failed" /\ err = "LedgerError") => Len(alerts) = idx - 1
    /\ (pc = "done" /\ top_picks # <<>>) => Len(alerts) = Len(top_picks)
    /\ (pc = "done" /\ top_picks # <<>>) => out[Len(out)][1] = "processed"

\* two deliveries failed, the third was still attempted, and the run is DONE
C8_Witness ==
    /\ pc = "done"
    /\ Len(alerts) = 3
    /\ alerts[1].outcome = "failed"
    /\ alerts[2].outcome = "failed"
    /\ alerts[3].outcome = "sent"

\* the catalyst a ledger row was written for, by its ticker
LedgerCatalystOf(t) == CHOOSE c \in LedgerCatalysts : c.ticker = t

LedgerShape ==
    IF out = <<>>
    THEN ~ledger_exists /\ ledger_rows = <<>>
    ELSE /\ ledger_exists
         /\ Len(ledger_rows) = Len(out) + 1
         /\ ledger_rows[1] = Headers
         /\ \A i \in 1..Len(out) :
               LET row == ledger_rows[i + 1]
                   c == LedgerCatalystOf(out[i][2])
               IN  /\ Len(row) = 9
                   /\ row[9] = "OPEN"
                   /\ row[1] \in 0..clock
                   /\ (i > 1 => ledger_rows[i][1] <= row[1])
                   /\ SubSeq(row, 2, 8) =
                         <<c.ticker, c.current_price, c.conviction_score, c.market_cap,
                           c.expected_upside, c.thesis, c.absorption_status>>

\* C9: from no ledger file, after N calls of log_alert_to_csv the file is one
\* header row and then N data rows in call order, each ending "OPEN", and no
\* call edits or removes a row written before it.
C9_LedgerAppendOnly ==
    /\ []LedgerShape
    /\ [][IsPrefix(ledger_rows, ledger_rows')]_vars

\* three calls at three different times
C9_Witness ==
    /\ Len(out) = 3
    /\ Len(ledger_rows) = 4
    /\ ledger_rows[2][1] < ledger_rows[3][1]
    /\ ledger_rows[3][1] < ledger_rows[4][1]

\* C10: the filtered report is in the snapshot before any ledger row or
\* delivery attempt; each alerted candidate's ledger row is appended before
\* its delivery attempt, whatever that attempt's outcome, so the rows appended
\* are never fewer than the attempts made; and when a ledger append raises,
\* the run is FAILED with the snapshot already replaced and the candidates
\* from that one on neither logged nor delivered.
C10_SnapshotThenRowThenAlert ==
    LET rowsAppended == Len(LoggedTickers)
        attempts == Len(alerts)
    IN  /\ (rowsAppended > 0 \/ attempts > 0) => snapshot = ScoutReport(filtered_catalysts)
        /\ rowsAppended >= attempts
        /\ rowsAppended - attempts = (IF pc = "send" THEN 1 ELSE 0)
        /\ \A i \in 1..rowsAppended :
              LET row == ledger_rows[Len(ledger_rows) - rowsAppended + i]
              IN  /\ row[2] = top_picks[i].ticker
                  /\ row[9] = "OPEN"
        /\ \A i \in 1..attempts : alerts[i].msg.ticker = LoggedTickers[i]
        /\ (pc = "failed" /\ err = "LedgerError") =>
              /\ snapshot = ScoutReport(filtered_catalysts)
              /\ rowsAppended = idx - 1
              /\ attempts = idx - 1
              /\ idx <= Len(top_picks)

\* the second append raised: the snapshot is replaced, the first candidate is
\* in the ledger as OPEN though its delivery failed, the others are nowhere
C10_Witness ==
    /\ pc = "failed"
    /\ err = "LedgerError"
    /\ Len(top_picks) = 3
    /\ idx = 2
    /\ alerts[1].outcome = "failed"
    /\ ledger_rows[Len(ledger_rows)][2] = top_picks[1].ticker
    /\ ledger_rows[Len(ledger_rows)][9] = "OPEN"
    /\ snapshot = ScoutReport(filtered_catalysts)

====
